---- MODULE Spec2Model ----
(***************************************************************************)
(* The batch background-filtering cell and the memory-mapping cell of      *)
(* demos/notebooks/demo_Ring_CNN.ipynb, as a state machine.                *)
(*                                                                         *)
(* A movie is a function from 0-based frame indices to frames, a frame a   *)
(* function [row -> [col -> pixel]], as numpy indexes them.  A file name   *)
(* is the sequence of character codes that follows the common prefix       *)
(* fld_name/pfc_back_removed_ (the prefix is the same for every name, so   *)
(* string comparison is decided by what follows it).                       *)
(*                                                                         *)
(* The cells run top to bottom; an exception raised in a cell stops the    *)
(* execution (pc = "failed"), and nothing in the notebook catches one.     *)
(***************************************************************************)
EXTENDS Integers, Sequences, FiniteSets, TLC

VARIABLES
  Y,            \* the source movie held by fnames (variable 'Y' of the file)
  model_LN,     \* the loaded background model
  save_file,    \* the flag of the filtering cell
  batch_length, \* frames per batch
  T,            \* the notebook's T: the source frame count, rebound by load_memmap
  dims,         \* the notebook's dims
  pc,           \* the statement about to run
  i,            \* the loop variable
  images,       \* the batch as loaded
  images_filt,  \* the estimated background of the batch
  temp_file,    \* the output name of the batch
  saved_files,  \* the list of output names
  m,            \* the filtered batch
  disk,         \* the output directory: name -> file
  mmap_file,    \* the memory-mapped composite file (fname_mmap), or NoMmap
  Yr,           \* the (pixels, frames) array read back from the composite
  images_mmap,  \* the (frames, rows, cols) view of the composite
  err,          \* the exception delivered to the caller, or NoError
  log,          \* history: the library calls made on batches, in order
  first_run     \* history: what an earlier run of the loop, on the same
                \* inputs into another directory, recorded and wrote

vars == <<Y, model_LN, save_file, batch_length, T, dims, pc, i, images,
          images_filt, temp_file, saved_files, m, disk, mmap_file, Yr,
          images_mmap, err, log, first_run>>

----------------------------------------------------------------------------
(* Bounds of the model. *)

MaxT == 5
MaxBatchLength == 3
MaxNameBatches == 5

(* format(i, '05d'): the minimum field width. *)
Width == 5

----------------------------------------------------------------------------
(* Arithmetic helpers. *)

Min(a, b) == IF a <= b THEN a ELSE b

Max(a, b) == IF a >= b THEN a ELSE b

RECURSIVE Pow10(_)
Pow10(n) == IF n = 0 THEN 1 ELSE 10 * Pow10(n - 1)

----------------------------------------------------------------------------
(* Movies. *)

EmptyMovie == <<>>

NFrames(mv) == Cardinality(DOMAIN mv)

Rows(d) == d[1]

Cols(d) == d[2]

Pixels(d) == Rows(d) * Cols(d)

(* np.concatenate along the time axis. *)
Concat(a, b) ==
  [k \in 0..(NFrames(a) + NFrames(b) - 1) |->
     IF k < NFrames(a) THEN a[k] ELSE b[k - NFrames(a)]]

(* The source movies the model draws from: pixel (r, c) of frame t.  Within *)
(* a frame all pixels differ, so a wrong layout is visible.                 *)
SrcPixel(seed, t, r, c) == (seed + 5 * t + 3 * r + c) % 7

SourceMovie(seed, n, d) ==
  [t \in 0..(n - 1) |->
     [r \in 0..(Rows(d) - 1) |->
        [c \in 0..(Cols(d) - 1) |-> SrcPixel(seed, t, r, c)]]]

Seeds == {0, 4}

(* Frames have at least two rows and two columns. *)
DimsSet == {<<2, 2>>, <<2, 3>>}

(* The background models the model draws from: the estimate of a pixel is  *)
(* gain * pixel + bias, so estimates below, equal to and above the pixel    *)
(* all occur.                                                               *)
Models == {<<0, 0>>, <<0, 3>>, <<2, 1>>}

----------------------------------------------------------------------------
(* File names: 'pfc_back_removed_' + format(i, '05d') + '.h5'. *)

RECURSIVE Digits(_)
Digits(n) == IF n < 10 THEN <<n>> ELSE Append(Digits(n \div 10), n % 10)

RECURSIVE ZeroPad(_, _)
ZeroPad(d, w) == IF Len(d) >= w THEN d ELSE ZeroPad(<<0>> \o d, w)

(* format(n, 'd'): no padding. *)
FormatPlain(n) == Digits(n)

(* format(n, '05d'): the decimal digits, zero-padded on the left to at     *)
(* least Width characters; a longer number keeps all its digits.           *)
Format05d(n) == ZeroPad(Digits(n), Width)

(* The character codes of the digits, then of ".h5". *)
FileName(n) ==
  [k \in 1..Len(Format05d(n)) |-> 48 + Format05d(n)[k]] \o <<46, 104, 53>>

(* Python's str <: the first differing character decides; a proper prefix  *)
(* is smaller.                                                             *)
LexLess(a, b) ==
  \E k \in 1..(Min(Len(a), Len(b)) + 1) :
     /\ \A j \in 1..(k - 1) : a[j] = b[j]
     /\ IF k <= Len(a) /\ k <= Len(b) THEN a[k] < b[k]
        ELSE k > Len(a) /\ k <= Len(b)

(* list.sort() of a list of distinct names. *)
RECURSIVE SortNames(_)
SortNames(S) ==
  IF S = {} THEN <<>>
  ELSE LET least == CHOOSE x \in S : \A y \in S \ {x} : LexLess(x, y)
       IN <<least>> \o SortNames(S \ {least})

(* glob.glob(os.path.join(fld_name, 'pfc_back_removed_*')): the names in   *)
(* the directory; every file of the model matches the pattern.             *)
Glob(d) == DOMAIN d

----------------------------------------------------------------------------
(* The library calls of the filtering loop. *)

(* A load that reads one frame less than the slice asks for. *)
CmLoadShort(src, lo, hi) ==
  [k \in 0..(Min(hi - 1, NFrames(src)) - lo - 1) |-> src[lo + k]]

(* cm.load(fnames, var_name_hdf5='Y', subindices=slice(lo, hi)): a slice   *)
(* is clipped at the end of the movie.                                     *)
CmLoad(src, lo, hi) ==
  [k \in 0..(Min(hi, NFrames(src)) - lo - 1) |-> src[lo + k]]

(* model_LN.predict: the estimated background, of the shape of its input.  *)
Predict(mdl, mv) ==
  [k \in DOMAIN mv |->
     [r \in DOMAIN mv[k] |->
        [c \in DOMAIN mv[k][r] |-> mdl[1] * mv[k][r][c] + mdl[2]]]]

(* np.squeeze drops every axis of length 1: the channel axis, and the time *)
(* axis of a one-frame batch.                                              *)
Squeeze(mv) ==
  IF NFrames(mv) = 1 THEN [ndim |-> 2, a |-> mv[0]] ELSE [ndim |-> 3, a |-> mv]

(* numpy broadcasting of a squeezed estimate against the batch. *)
Broadcast(est, k) == IF est.ndim = 2 THEN est.a ELSE est.a[k]

(* The difference without the clamp. *)
SubtractNoClamp(mv, est) ==
  [k \in DOMAIN mv |->
     [r \in DOMAIN mv[k] |->
        [c \in DOMAIN mv[k][r] |-> mv[k][r][c] - Broadcast(est, k)[r][c]]]]

(* cm.movie(np.maximum(images - images_filt, 0)). *)
Subtract(mv, est) ==
  [k \in DOMAIN mv |->
     [r \in DOMAIN mv[k] |->
        [c \in DOMAIN mv[k][r] |->
           Max(mv[k][r][c] - Broadcast(est, k)[r][c], 0)]]]

(* What m.save(temp_file) leaves at temp_file when it returns. *)
SavedFile(mv) == [frames |-> mv, complete |-> TRUE]

(* What a failed m.save(temp_file) can leave at temp_file: the first k     *)
(* frames of the batch, in a file that was not finished.                   *)
PartialFile(mv, k) ==
  [frames |-> [j \in 0..(k - 1) |-> mv[j]], complete |-> FALSE]

(* A loop that also runs for the value equal to stop. *)
RangeHasNextInclusive(n, stop, step) == n + step <= stop

(* for i in range(0, T, batch_length): whether the loop has a next value. *)
RangeHasNext(n, stop, step) == n + step < stop

(* The start indices of range(0, stop, step). *)
Starts(stop, step) ==
  {k * step : k \in 0..(((stop + step - 1) \div step) - 1)}

(* The files a completed run of the loop writes. *)
RunFiles(src, mdl, step) ==
  [name \in {FileName(s) : s \in Starts(NFrames(src), step)} |->
     LET s == CHOOSE x \in Starts(NFrames(src), step) : FileName(x) = name
         b == CmLoad(src, s, s + step)
     IN SavedFile(Subtract(b, Squeeze(Predict(mdl, b))))]

----------------------------------------------------------------------------
(* The memory-mapping cell.  A 2-D array is [0..n0-1 -> [0..n1-1 -> x]].   *)

(* cm.load of a list of files (load_movie_chain): the movies, in the order *)
(* of the list, concatenated along time.                                   *)
RECURSIVE LoadChain(_, _)
LoadChain(names, d) ==
  IF names = <<>> THEN EmptyMovie
  ELSE Concat(d[Head(names)].frames, LoadChain(Tail(names), d))

(* Whether every file of the list can be read. *)
Loadable(names, d) ==
  /\ names # <<>>
  /\ \A k \in 1..Len(names) : names[k] \in DOMAIN d /\ d[names[k]].complete

(* The spatial shape of the frames of a movie. *)
FrameDims(mv) ==
  <<Cardinality(DOMAIN mv[0]), Cardinality(DOMAIN mv[0][0])>>

(* save_memmap flattens a frame column by column: pixel (r, c) has pixel  *)
(* index r + rows * c.  The frame's pixel at pixel index p:                *)
FlatPixel(frame, p, d) == frame[p % Rows(d)][p \div Rows(d)]

(* cm.save_memmap([saved_files], order='C', border_to_0=0): the file holds *)
(* the (pixels, frames) array row by row, and its name records dims, the   *)
(* order and the frame count.                                              *)
MemmapOf(mv) ==
  LET d == FrameDims(mv)
      n == NFrames(mv)
  IN [dims |-> d, T |-> n, order |-> "C",
      raw |-> [o \in 0..(Pixels(d) * n - 1) |->
                 FlatPixel(mv[o % n], o \div n, d)]]

(* cm.load_memmap(fname_mmap): Yr of shape (pixels, frames), read in the   *)
(* order the file name records.                                            *)
MemmapArray(f) ==
  [p \in 0..(Pixels(f.dims) - 1) |->
     [t \in 0..(f.T - 1) |->
        IF f.order = "C" THEN f.raw[p * f.T + t]
        ELSE f.raw[p + Pixels(f.dims) * t]]]

(* A.T of a 2-D array of shape (n0, n1). *)
Transpose(A, n0, n1) ==
  [b \in 0..(n1 - 1) |-> [a \in 0..(n0 - 1) |-> A[a][b]]]

(* The elements of a 2-D array of shape (n0, n1) in column-major order. *)
RavelF(A, n0, n1) ==
  [o \in 0..(n0 * n1 - 1) |-> A[o % n0][o \div n0]]

(* The elements of a 2-D array of shape (n0, n1) in row-major order. *)
RavelC(A, n0, n1) ==
  [o \in 0..(n0 * n1 - 1) |-> A[o \div n1][o % n1]]

(* flat.reshape((n0, n1, n2), order='F'). *)
UnravelF(flat, n0, n1, n2) ==
  [a \in 0..(n0 - 1) |-> [b \in 0..(n1 - 1) |-> [c \in 0..(n2 - 1) |->
     flat[a + n0 * (b + n1 * c)]]]]

(* flat.reshape((n0, n1, n2), order='C'). *)
UnravelC(flat, n0, n1, n2) ==
  [a \in 0..(n0 - 1) |-> [b \in 0..(n1 - 1) |-> [c \in 0..(n2 - 1) |->
     flat[(a * n1 + b) * n2 + c]]]]

(* The same reshape in row-major order. *)
ReshapeMmapRowMajor(A, n, d) ==
  UnravelC(RavelC(Transpose(A, Pixels(d), n), n, Pixels(d)),
           n, Rows(d), Cols(d))

(* Yr.T.reshape((T,) + dims, order='F'). *)
ReshapeMmap(A, n, d) ==
  UnravelF(RavelF(Transpose(A, Pixels(d), n), n, Pixels(d)),
           n, Rows(d), Cols(d))

----------------------------------------------------------------------------
(* Exceptions.  The library raises an exception of one of its own classes; *)
(* the cells have no try/except, so the caller receives it as raised: no   *)
(* pipeline error type wraps it and no batch index is attached to it.      *)

Causes == {"OSError", "ValueError"}

NoError == [type |-> "none", context |-> {}]

Raise(cause, start) == [type |-> cause, context |-> {}]

NoMmap == [dims |-> <<0, 0>>, T |-> 0, order |-> "none", raw |-> <<>>]

NoRun == [names |-> <<>>, files |-> <<>>, ran |-> FALSE]

(* The output directory as an earlier execution of the filtering cell left *)
(* it: <<frames, batch length>> of that execution (0 frames: empty).       *)
StaleRuns == {<<0, 1>>, <<3, 1>>, <<2, 2>>}

----------------------------------------------------------------------------
(* The state before the filtering cell runs. *)

Init ==
  \E n \in 0..MaxT, d \in DimsSet, seed \in Seeds, mdl \in Models,
     sf \in BOOLEAN, bl \in 1..MaxBatchLength, st \in StaleRuns :
    /\ Y = SourceMovie(seed, n, d)
    /\ model_LN = mdl
    /\ save_file = sf
    /\ batch_length = bl
    /\ T = n
    /\ dims = d
    /\ pc = "cell"
    /\ i = 0
    /\ images = EmptyMovie
    /\ images_filt = Squeeze(EmptyMovie)
    /\ temp_file = <<>>
    /\ saved_files = <<>>
    /\ m = EmptyMovie
    /\ disk = RunFiles(SourceMovie(seed + 3, st[1], d), mdl, st[2])
    /\ mmap_file = NoMmap
    /\ Yr = <<>>
    /\ images_mmap = EmptyMovie
    /\ err = NoError
    /\ log = <<>>
    /\ first_run = NoRun

Event(op, n, ok) == [op |-> op, start |-> i, n |-> n, ok |-> ok]

(* An exception that is swallowed, the failing call being made again. *)
AbortRetry(cause) ==
  /\ err' = Raise(cause, i)
  /\ pc' = pc

(* An exception that is swallowed, the run going on to the next cell. *)
AbortContinue(cause) ==
  /\ err' = Raise(cause, i)
  /\ pc' = "memmap"

(* An exception leaves the cell: nothing after the raising call runs. *)
Abort(cause) ==
  /\ err' = Raise(cause, i)
  /\ pc' = "failed"

(* if save_file: ... m = []; saved_files = []; for i in range(0, T, ...) *)
BeginLoop ==
  /\ pc = "cell"
  /\ save_file
  /\ m' = EmptyMovie
  /\ saved_files' = <<>>
  /\ IF 0 < T THEN i' = 0 /\ pc' = "load" ELSE i' = i /\ pc' = "memmap"
  /\ UNCHANGED <<first_run, Y, model_LN, save_file, batch_length, T, dims, images,
                 images_filt, temp_file, disk, mmap_file, Yr, images_mmap,
                 err, log>>

(* else: saved_files = glob.glob(...); saved_files.sort() *)
ListSaved ==
  /\ pc = "cell"
  /\ ~save_file
  /\ saved_files' = SortNames(Glob(disk))
  /\ pc' = "memmap"
  /\ UNCHANGED <<first_run, Y, model_LN, save_file, batch_length, T, dims, i, images,
                 images_filt, temp_file, m, disk, mmap_file, Yr,
                 images_mmap, err, log>>

(* images = cm.load(fnames, ..., subindices=slice(i, i + batch_length)) *)
Load ==
  /\ pc = "load"
  /\ images' = CmLoad(Y, i, i + batch_length)
  /\ log' = Append(log, Event("load", NFrames(images'), TRUE))
  /\ pc' = "predict"
  /\ UNCHANGED <<first_run, Y, model_LN, save_file, batch_length, T, dims, i,
                 images_filt, temp_file, saved_files, m, disk, mmap_file,
                 Yr, images_mmap, err>>

LoadFail ==
  /\ pc = "load"
  /\ \E cause \in Causes : Abort(cause)
  /\ log' = Append(log, Event("load", 0, FALSE))
  /\ UNCHANGED <<first_run, Y, model_LN, save_file, batch_length, T, dims, i, images,
                 images_filt, temp_file, saved_files, m, disk, mmap_file,
                 Yr, images_mmap>>

(* images_filt = np.squeeze(model_LN.predict(np.expand_dims(images, -1))) *)
PredictBatch ==
  /\ pc = "predict"
  /\ pc' = "name"
  /\ images_filt' = Squeeze(Predict(model_LN, images))
  /\ log' = Append(log, Event("predict", NFrames(images), TRUE))
  /\ UNCHANGED <<first_run, Y, model_LN, save_file, batch_length, T, dims, i, images,
                 temp_file, saved_files, m, disk, mmap_file, Yr,
                 images_mmap, err>>

PredictFail ==
  /\ pc = "predict"
  /\ \E cause \in Causes : Abort(cause)
  /\ log' = Append(log, Event("predict", NFrames(images), FALSE))
  /\ UNCHANGED <<first_run, Y, model_LN, save_file, batch_length, T, dims, i, images,
                 images_filt, temp_file, saved_files, m, disk, mmap_file,
                 Yr, images_mmap>>

(* temp_file = ... format(i, '05d') ...; saved_files.append(temp_file) *)
NameBatch ==
  /\ pc = "name"
  /\ temp_file' = FileName(i)
  /\ saved_files' = Append(saved_files, FileName(i))
  /\ pc' = "subtract"
  /\ UNCHANGED <<first_run, Y, model_LN, save_file, batch_length, T, dims, i, images,
                 images_filt, m, disk, mmap_file, Yr, images_mmap, err, log>>

(* m = cm.movie(np.maximum(images - images_filt, 0)) *)
SubtractBatch ==
  /\ pc = "subtract"
  /\ m' = Subtract(images, images_filt)
  /\ pc' = "save"
  /\ UNCHANGED <<first_run, Y, model_LN, save_file, batch_length, T, dims, i, images,
                 images_filt, temp_file, saved_files, disk, mmap_file, Yr,
                 images_mmap, err, log>>

(* A write that leaves a file that is already there as it is. *)
WriteFileIfAbsent(d, name, f) ==
  [x \in DOMAIN d \cup {name} |-> IF x \in DOMAIN d THEN d[x] ELSE f]

WriteFile(d, name, f) ==
  [x \in DOMAIN d \cup {name} |-> IF x = name THEN f ELSE d[x]]

(* A loop that passes over every other batch. *)
AdvanceSkip ==
  IF RangeHasNext(i, T, batch_length)
  THEN i' = i + 2 * batch_length /\ pc' = "load"
  ELSE i' = i /\ pc' = "memmap"

(* A loop that does not return after its last batch. *)
AdvanceHang ==
  IF RangeHasNext(i, T, batch_length)
  THEN i' = i + batch_length /\ pc' = "load"
  ELSE i' = i /\ pc' = "hung"

(* The loop's next iteration, or the cell's end. *)
Advance ==
  IF RangeHasNext(i, T, batch_length)
  THEN i' = i + batch_length /\ pc' = "load"
  ELSE i' = i /\ pc' = "memmap"

(* m.save(temp_file), and the loop's step *)
Save ==
  /\ pc = "save"
  /\ disk' = WriteFile(disk, temp_file, SavedFile(m))
  /\ log' = Append(log, Event("save", NFrames(m), TRUE))
  /\ Advance
  /\ UNCHANGED <<first_run, Y, model_LN, save_file, batch_length, T, dims, images,
                 images_filt, temp_file, saved_files, m, mmap_file, Yr,
                 images_mmap, err>>

(* m.save(temp_file) raises: the directory is as it was, or holds what was *)
(* written of the file before the failure; the cell removes nothing.       *)
SaveFail ==
  /\ pc = "save"
  /\ \/ disk' = disk
     \/ \E k \in 0..(NFrames(m) - 1) :
          disk' = WriteFile(disk, temp_file, PartialFile(m, k))
  /\ \E cause \in Causes : Abort(cause)
  /\ log' = Append(log, Event("save", NFrames(m), FALSE))
  /\ UNCHANGED <<first_run, Y, model_LN, save_file, batch_length, T, dims, i, images,
                 images_filt, temp_file, saved_files, m, mmap_file, Yr,
                 images_mmap>>

(* fname_mmap = cm.save_memmap([saved_files], order='C', border_to_0=0) *)
SaveMemmap ==
  /\ pc = "memmap"
  /\ Loadable(saved_files, disk)
  /\ mmap_file' = MemmapOf(LoadChain(saved_files, disk))
  /\ pc' = "load_memmap"
  /\ UNCHANGED <<first_run, Y, model_LN, save_file, batch_length, T, dims, i, images,
                 images_filt, temp_file, saved_files, m, disk, Yr,
                 images_mmap, err, log>>

SaveMemmapFail ==
  /\ pc = "memmap"
  /\ \E cause \in Causes : Abort(cause)
  /\ UNCHANGED <<first_run, Y, model_LN, save_file, batch_length, T, dims, i, images,
                 images_filt, temp_file, saved_files, m, disk, mmap_file,
                 Yr, images_mmap, log>>

(* Yr, dims, T = cm.load_memmap(fname_mmap) *)
LoadMemmap ==
  /\ pc = "load_memmap"
  /\ Yr' = MemmapArray(mmap_file)
  /\ dims' = mmap_file.dims
  /\ T' = mmap_file.T
  /\ pc' = "reshape"
  /\ UNCHANGED <<first_run, Y, model_LN, save_file, batch_length, i, images,
                 images_filt, temp_file, saved_files, m, disk, mmap_file,
                 images_mmap, err, log>>

(* images_mmap = Yr.T.reshape((T,) + dims, order='F') *)
Reshape ==
  /\ pc = "reshape"
  /\ images_mmap' = ReshapeMmap(Yr, T, dims)
  /\ pc' = "done"
  /\ UNCHANGED <<first_run, Y, model_LN, save_file, batch_length, T, dims, i, images,
                 images_filt, temp_file, saved_files, m, disk, mmap_file,
                 Yr, err, log>>

Next ==
  \/ BeginLoop
  \/ ListSaved
  \/ Load
  \/ LoadFail
  \/ PredictBatch
  \/ PredictFail
  \/ NameBatch
  \/ SubtractBatch
  \/ Save
  \/ SaveFail
  \/ SaveMemmap
  \/ SaveMemmapFail
  \/ LoadMemmap
  \/ Reshape

Spec == Init /\ [][Next]_vars

----------------------------------------------------------------------------
(* Two runs of the loop on the same source, model and batch length: when   *)
(* the first has completed, the filtering cell is executed again with      *)
(* fld_name naming another directory.  The notebook's variables keep the   *)
(* values the first run left in them.                                      *)

FilesOf(names, d) ==
  [x \in {names[k] : k \in 1..Len(names)} |-> d[x]]

RunAgain ==
  /\ pc = "memmap"
  /\ save_file
  /\ ~first_run.ran
  /\ first_run' = [names |-> saved_files,
                   files |-> FilesOf(saved_files, disk), ran |-> TRUE]
  /\ \E st \in StaleRuns :
       disk' = RunFiles(SourceMovie(1, st[1], dims), model_LN, st[2])
  /\ log' = <<>>
  /\ pc' = "cell"
  /\ UNCHANGED <<Y, model_LN, save_file, batch_length, T, dims, i, images,
                 images_filt, temp_file, saved_files, m, mmap_file, Yr,
                 images_mmap, err>>

(* The interpreter executes statement after statement: whenever a step of  *)
(* the cells can be taken, one is taken.                                   *)
SpecFair == Spec /\ WF_vars(Next)

NextTwoRuns == Next \/ RunAgain

SpecTwoRuns == Init /\ [][NextTwoRuns]_vars

----------------------------------------------------------------------------
(* The naming of the output files on its own: the same cell with the pixel *)
(* data left out (no movie is loaded, filtered or written; a file is an    *)
(* empty placeholder), so that start indices of six digits are reached.    *)

NameFrames == {1000, 1100, 99999, 100000, 100001, 150000}

NameBatchLengths == {256, 25000, 50000, 100000}

NamePairs ==
  {p \in NameFrames \X NameBatchLengths :
     Cardinality(Starts(p[1], p[2])) <= MaxNameBatches}

PlaceholderFiles(n, step) ==
  [name \in {FileName(s) : s \in Starts(n, step)} |-> SavedFile(EmptyMovie)]

InitNames ==
  \E p \in NamePairs, sf \in BOOLEAN, st \in NamePairs \cup {<<0, 1>>} :
    /\ Y = EmptyMovie
    /\ model_LN = <<0, 0>>
    /\ save_file = sf
    /\ batch_length = p[2]
    /\ T = p[1]
    /\ dims = <<2, 2>>
    /\ pc = "cell"
    /\ i = 0
    /\ images = EmptyMovie
    /\ images_filt = Squeeze(EmptyMovie)
    /\ temp_file = <<>>
    /\ saved_files = <<>>
    /\ m = EmptyMovie
    /\ disk = PlaceholderFiles(st[1], st[2])
    /\ mmap_file = NoMmap
    /\ Yr = <<>>
    /\ images_mmap = EmptyMovie
    /\ err = NoError
    /\ log = <<>>
    /\ first_run = NoRun

(* cm.load and model_LN.predict of the batch, data left out. *)
LoadPredictNoData ==
  /\ pc = "load"
  /\ pc' = "name"
  /\ UNCHANGED <<first_run, Y, model_LN, save_file, batch_length, T, dims, i, images,
                 images_filt, temp_file, saved_files, m, disk, mmap_file,
                 Yr, images_mmap, err, log>>

(* np.maximum and m.save(temp_file) of the batch, data left out, and the   *)
(* loop's step.                                                            *)
SubtractSaveNoData ==
  /\ pc = "subtract"
  /\ disk' = WriteFile(disk, temp_file, SavedFile(EmptyMovie))
  /\ Advance
  /\ UNCHANGED <<first_run, Y, model_LN, save_file, batch_length, T, dims, images,
                 images_filt, temp_file, saved_files, m, mmap_file, Yr,
                 images_mmap, err, log>>

NextNames ==
  \/ BeginLoop
  \/ ListSaved
  \/ LoadPredictNoData
  \/ NameBatch
  \/ SubtractSaveNoData

SpecNames == InitNames /\ [][NextNames]_vars

----------------------------------------------------------------------------
(* What the properties speak of. *)

CeilDiv(a, b) == (a + b - 1) \div b

(* The source frame count, whatever the notebook's T is bound to. *)
SourceFrames == NFrames(Y)

(* The loop ran to its end. *)
LoopCompleted ==
  save_file /\ pc \in {"memmap", "load_memmap", "reshape", "done"}

(* The composite exists. *)
CompositeProduced == pc \in {"load_memmap", "reshape", "done"}

IsLoadOk(e) == e.op = "load" /\ e.ok

IsSaveOk(e) == e.op = "save" /\ e.ok

Loads == SelectSeq(log, IsLoadOk)

Saves == SelectSeq(log, IsSaveOk)

RECURSIVE SumFrames(_, _)
SumFrames(names, d) ==
  IF names = <<>> THEN 0
  ELSE NFrames(d[Head(names)].frames) + SumFrames(Tail(names), d)

(* The batch of start index s, its estimated background, and the filtered  *)
(* batch the pipeline is to persist for it.                                *)
SourceBatch(s) ==
  [k \in 0..(Min(s + batch_length, SourceFrames) - s - 1) |-> Y[s + k]]

Background(s) == Predict(model_LN, SourceBatch(s))

ExpectedBatch(s) ==
  [k \in DOMAIN SourceBatch(s) |->
     [r \in DOMAIN SourceBatch(s)[k] |->
        [c \in DOMAIN SourceBatch(s)[k][r] |->
           IF SourceBatch(s)[k][r][c] >= Background(s)[k][r][c]
           THEN SourceBatch(s)[k][r][c] - Background(s)[k][r][c]
           ELSE 0]]]

(* The run failed on a batch: the last call on a batch raised. *)
FailedOnBatch ==
  /\ err # NoError
  /\ log # <<>>
  /\ ~log[Len(log)].ok

FailedStart == log[Len(log)].start

FailedOp == log[Len(log)].op

(* The start index a file name encodes. *)
RECURSIVE DigitsValue(_)
DigitsValue(d) ==
  IF d = <<>> THEN 0
  ELSE 10 * DigitsValue(SubSeq(d, 1, Len(d) - 1)) + (d[Len(d)] - 48)

StartOf(name) == DigitsValue(SubSeq(name, 1, Len(name) - 3))

Listing == SortNames(Glob(disk))

AscendingStarts(names) ==
  \A p \in 1..Len(names) : \A q \in (p + 1)..Len(names) :
     StartOf(names[p]) < StartOf(names[q])

----------------------------------------------------------------------------
(* C1: a completed run of the loop has written exactly                     *)
(* ceil(T / batch_length) output files, one per batch and all distinct,    *)
(* and their frame counts sum to the source frame count T.                 *)
C1_FileCountAndFrameSum ==
  LoopCompleted =>
    /\ Len(saved_files) = CeilDiv(SourceFrames, batch_length)
    /\ Len(Saves) = CeilDiv(SourceFrames, batch_length)
    /\ Cardinality({saved_files[k] : k \in 1..Len(saved_files)})
         = CeilDiv(SourceFrames, batch_length)
    /\ \A k \in 1..Len(saved_files) :
         saved_files[k] \in DOMAIN disk /\ disk[saved_files[k]].complete
    /\ SumFrames(saved_files, disk) = SourceFrames

C1_Witness ==
  /\ LoopCompleted
  /\ Len(saved_files) >= 2
  /\ SourceFrames % batch_length # 0

(* C2: the batches of a completed run are [i, min(i + batch_length, T))    *)
(* for i = 0, batch_length, ...: every source frame index lies in exactly  *)
(* one batch, all batches but the last have batch_length frames, the last  *)
(* has T mod batch_length frames, or batch_length when that is 0; and a    *)
(* loaded batch holds the source frames of its range.                      *)
C2_BatchesPartitionFrames ==
  /\ pc = "predict" => images = SourceBatch(i)
  /\ LoopCompleted =>
       /\ Len(Loads) = CeilDiv(SourceFrames, batch_length)
       /\ \A k \in 1..Len(Loads) :
            /\ Loads[k].start = (k - 1) * batch_length
            /\ Loads[k].n
                 = Min(Loads[k].start + batch_length, SourceFrames)
                     - Loads[k].start
       /\ \A t \in 0..(SourceFrames - 1) :
            Cardinality({k \in 1..Len(Loads) :
                           /\ Loads[k].start <= t
                           /\ t < Loads[k].start + Loads[k].n}) = 1
       /\ \A k \in 1..(Len(Loads) - 1) : Loads[k].n = batch_length
       /\ Len(Loads) > 0 =>
            Loads[Len(Loads)].n =
              IF SourceFrames % batch_length = 0 THEN batch_length
              ELSE SourceFrames % batch_length

C2_Witness ==
  /\ pc = "done"
  /\ save_file
  /\ Len(Loads) >= 2
  /\ Loads[Len(Loads)].n < batch_length

C4_CompositeMatchesSource ==
  /\ CompositeProduced =>
       /\ mmap_file.T = SumFrames(saved_files, disk)
       /\ mmap_file.T = SourceFrames
  /\ (/\ err # NoError
      /\ ~FailedOnBatch
      /\ Loadable(saved_files, disk)
      /\ SumFrames(saved_files, disk) # SourceFrames)
       => err.type = "ConcatenationError"

(* The shape the specification asks for: Yr reshaped to dims + (T,) in the *)
(* order the composite declares, the frame axis then moved to the front.   *)
ReshapeDeclared(A, n, d, order) ==
  LET B == IF order = "C"
           THEN UnravelC(RavelC(A, Pixels(d), n), Rows(d), Cols(d), n)
           ELSE UnravelF(RavelF(A, Pixels(d), n), Rows(d), Cols(d), n)
  IN [t \in 0..(n - 1) |-> [r \in 0..(Rows(d) - 1) |->
        [c \in 0..(Cols(d) - 1) |-> B[r][c][t]]]]

C6_NamesSortInFrameOrder ==
  LoopCompleted =>
    /\ \A p \in 1..Len(saved_files) : \A q \in (p + 1)..Len(saved_files) :
         LexLess(saved_files[p], saved_files[q])
    /\ AscendingStarts(saved_files)
    /\ Glob(disk) = {saved_files[k] : k \in 1..Len(saved_files)}
         => Listing = saved_files

(* C6, amended: the recorded list is in ascending frame order; the names   *)
(* of two batches sort as their start indices do when the larger index has *)
(* at most Width digits; the sorted directory listing is in ascending      *)
(* frame order when every start index in the directory has at most Width   *)
(* digits.                                                                 *)
C6_NamesSortUpToWidth ==
  /\ \A a \in Glob(disk) : \A b \in Glob(disk) :
       (StartOf(a) < StartOf(b) /\ StartOf(b) < Pow10(Width))
         => LexLess(a, b)
  /\ save_file => AscendingStarts(saved_files)
  /\ (\A a \in Glob(disk) : StartOf(a) < Pow10(Width))
       => AscendingStarts(Listing)
  /\ ~save_file /\ pc = "memmap" => saved_files = Listing
  /\ (/\ LoopCompleted
      /\ Glob(disk) = {saved_files[k] : k \in 1..Len(saved_files)}
      /\ \A a \in Glob(disk) : StartOf(a) < Pow10(Width))
       => Listing = saved_files

C6_Witness ==
  /\ save_file
  /\ pc = "memmap"
  /\ Len(saved_files) >= 4
  /\ saved_files = Listing
  /\ StartOf(saved_files[Len(saved_files)]) < Pow10(Width)

(* C7: a failing call on a batch ends the run: it is the last call the run *)
(* makes (no retry, no later batch), and the calls made before it are on   *)
(* batches of start index at most that of the failing batch.               *)
C7_FailFast ==
  \A k \in 1..Len(log) :
     ~log[k].ok =>
       /\ k = Len(log)
       /\ pc = "failed"
       /\ i = log[k].start
       /\ \A j \in 1..k : log[j].start <= log[k].start

C7_Witness ==
  /\ FailedOnBatch
  /\ FailedOp = "predict"
  /\ FailedStart = 2 * batch_length

(* C8: after a failure on the batch of start index s, the files of the     *)
(* batches before s are in the directory as they were written, and there   *)
(* is no composite file.                                                   *)
C8_EarlierFilesKept ==
  FailedOnBatch =>
    /\ \A b \in Starts(SourceFrames, batch_length) :
         b < FailedStart =>
           /\ FileName(b) \in DOMAIN disk
           /\ disk[FileName(b)] = SavedFile(ExpectedBatch(b))
    /\ mmap_file = NoMmap
    /\ pc = "failed"

C8_Witness ==
  /\ FailedOnBatch
  /\ FailedOp = "save"
  /\ FailedStart >= 2 * batch_length
  /\ FileName(0) \in DOMAIN disk

(* The error type the specification gives each step. *)
TypedError(op) ==
  CASE op = "load" -> "SourceReadError"
    [] op = "predict" -> "ModelInferenceError"
    [] op = "save" -> "PersistenceError"

(* C9: the failure of a batch reaches the caller typed by the failing step *)
(* and carrying the start index of the batch.                              *)
C9_TypedFailureWithStart ==
  FailedOnBatch =>
    /\ err.type = TypedError(FailedOp)
    /\ err.context = {FailedStart}

(* C10: after a failed write of a batch's file, the directory holds no     *)
(* file, complete or partial, under that batch's name.                     *)
C10_NoFileAfterFailedWrite ==
  (FailedOnBatch /\ FailedOp = "save") =>
    FileName(FailedStart) \notin DOMAIN disk

(* C11: two runs of the loop on the same source, model and batch length,   *)
(* into two directories, record the same file names in the same order and  *)
(* write files of identical contents, batch for batch.                     *)
C11_TwoRunsSameFiles ==
  (first_run.ran /\ LoopCompleted) =>
    /\ Len(saved_files) = Len(first_run.names)
    /\ saved_files = first_run.names
    /\ \A k \in 1..Len(saved_files) :
         /\ saved_files[k] \in DOMAIN disk
         /\ disk[saved_files[k]] = first_run.files[saved_files[k]]

(* The second run has completed, in a directory that held other files      *)
(* under the same names, and has written several batches.                  *)
C11_Witness ==
  /\ first_run.ran
  /\ LoopCompleted
  /\ Len(saved_files) >= 2
  /\ NFrames(disk[saved_files[Len(saved_files)]].frames) < batch_length
  /\ \E x \in DOMAIN disk : x \notin DOMAIN first_run.files

(* The loop is at one of its statements. *)
LoopRunning ==
  pc \in {"cell", "load", "predict", "name", "subtract", "save"}

(* Every batch of the source has been persisted and none has failed. *)
AllBatchesPersisted ==
  /\ ~FailedOnBatch
  /\ Len(Saves) = CeilDiv(SourceFrames, batch_length)

(* The run stopped at its first failing batch: nothing was attempted after *)
(* the failure and every batch before the failing one was persisted.       *)
AbortedOnFirstFailure ==
  /\ pc = "failed"
  /\ FailedOnBatch
  /\ \A k \in 1..(Len(log) - 1) : log[k].ok
  /\ Len(Saves) = FailedStart \div batch_length
  /\ Len(Saves) < CeilDiv(SourceFrames, batch_length)

(* C12: a run of the batch loop terminates: it eventually has persisted    *)
(* all ceil(T / batch_length) batches or has aborted on its first failing  *)
(* batch; it never persists more batches than that, and it leaves the loop *)
(* in no other state.                                                      *)
C12_LoopTerminates ==
  /\ (pc = "cell" /\ save_file) ~>
       ((LoopCompleted /\ AllBatchesPersisted) \/ AbortedOnFirstFailure)
  /\ [](save_file => Len(Saves) <= CeilDiv(SourceFrames, batch_length))
  /\ []((save_file /\ ~LoopRunning) =>
          (AllBatchesPersisted \/ AbortedOnFirstFailure))

(* The loop has returned after three batches, the last one short. *)
C12_Witness ==
  /\ save_file
  /\ ~LoopRunning
  /\ AllBatchesPersisted
  /\ Len(Saves) = 3
  /\ SourceFrames < 3 * batch_length

(* The calls made on batches that are loads, failed ones included. *)
IsLoad(e) == e.op = "load"

LoadsBegun == SelectSeq(log, IsLoad)

(* The k-th logged call succeeded, was op, and was made on the batch of    *)
(* start index s.                                                          *)
DoneAt(k, op, s) ==
  /\ k \in 1..Len(log)
  /\ log[k].ok
  /\ log[k].op = op
  /\ log[k].start = s

(* C13: batches are processed one at a time in ascending order of start    *)
(* index: the first load is of batch 0, the load of a later batch begins   *)
(* only after the batch batch_length before it has been loaded, filtered   *)
(* and persisted, in that order and with nothing in between, and at most   *)
(* one batch has been loaded and not yet persisted.                        *)
C13_OneBatchAtATime ==
  /\ log # <<>> => (log[1].op = "load" /\ log[1].start = 0)
  /\ \A k \in 1..Len(log) :
       (log[k].op = "load" /\ k > 1) =>
          /\ log[k].start > 0
          /\ DoneAt(k - 3, "load", log[k].start - batch_length)
          /\ DoneAt(k - 2, "predict", log[k].start - batch_length)
          /\ DoneAt(k - 1, "save", log[k].start - batch_length)
  /\ \A j, k \in 1..Len(log) :
       (j < k /\ log[j].op = "load" /\ log[k].op = "load") =>
          log[j].start < log[k].start
  /\ \A k \in 1..Len(log) :
       log[k].op # "load" => (k > 1 /\ log[k].start = log[k - 1].start)
  /\ Len(LoadsBegun) - Len(Saves) \in {0, 1}

(* The load of the third batch has begun. *)
C13_Witness ==
  /\ Len(LoadsBegun) = 3
  /\ log[Len(log)].op = "load"
  /\ log[Len(log)].start = 2 * batch_length
  /\ pc = "predict"

(* The write of the file called name has completed in this run. *)
WriteCompleted(name) ==
  /\ \E j \in 1..Len(log) : IsSaveOk(log[j]) /\ FileName(log[j].start) = name
  /\ name \in DOMAIN disk
  /\ disk[name].complete

(* C14: at every point of a run, after an abort too, every path in the     *)
(* recorded list names a batch file whose write has completed.             *)
C14_RecordedAfterPersisted ==
  save_file =>
    \A k \in 1..Len(saved_files) : WriteCompleted(saved_files[k])

====
